---------------------------- MODULE Spec2Model ----------------------------
(***************************************************************************)
(* A model of the c_traits repository: the Iter trait (Range, ListIter),  *)
(* the Scan trait (Sum, StringBuilder) and the Allocator trait (heap,     *)
(* bump, arena).  Every trait family is an independent program, so each   *)
(* has its own specification over the shared variables; the variables of  *)
(* the other families stay at their idle values.                           *)
(*                                                                         *)
(* Machine integers are scaled down: uint32_t is 0..U32Max and size_t is  *)
(* 0..SizeMax, with the arithmetic of the code taken modulo the width.    *)
(* A pointer is a record [base, off]: base names the allocated block (0   *)
(* for NULL), off the byte offset in it; [base |-> 0, off |-> 0] is NULL. *)
(***************************************************************************)
EXTENDS Integers, Sequences, FiniteSets, TLC

\* ------------------------------------------------------------------ bounds
\* UINT32_MAX, scaled down (uint32_t values are 0..U32Max).
U32Max == 63
\* SIZE_MAX, scaled down (size_t values are 0..SizeMax).
SizeMax == 7
\* The number of list nodes list_create builds.
MaxNodes == 3
\* The largest int stored in a list node.
MaxData == 3
\* The number of appends made to a Sum.
MaxSumAppends == 12
\* The number of appends made to a StringBuilder.
MaxAppends == 4
\* The largest capacity passed to string_builder_create.
MaxCapacity == 3
\* The number of blocks the system heap can hand out before malloc fails.
MaxBlocks == 2

\* sizeof(char*) on the 64-bit build.
PtrSize == 8

VARIABLES
    range,        \* the Range: [state, current, end]
    rangeResult,  \* the caller's result slot (index in main)
    rangeHist,    \* ghost: the range_create inputs and the last range_next call
    nodes,        \* the List nodes built so far: node i is nodes[i] = [next, data]
    listIter,     \* the ListIter: [state, current]
    listHist,     \* ghost: the root given and a log of the list_iter_next calls
    sum,          \* the Sum: [state, sum]
    sumHist,      \* ghost: the mathematical total appended, the last two calls; out
                  \* is what the last call wrote to *result (0 when it wrote nothing)
    builder,      \* the StringBuilder: [state, strings, count, length, slots]
    builderHist,  \* ghost: the strings appended, the last two calls
    bump,         \* the BumpAllocator: [state, memory, count, length]
    bumpHist,     \* ghost: the last call on the bump allocator
    arena,        \* the ArenaAllocator: [state, memory, count, length]
    heap,         \* the system heap behind the HeapAllocator: block i is heap[i]
    arenaHist     \* ghost: the last call on the arena allocator

vars == <<range, rangeResult, rangeHist, nodes, listIter, listHist, sum, sumHist,
          builder, builderHist, bump, bumpHist, arena, heap, arenaHist>>

rangeVars == <<range, rangeResult, rangeHist>>
listVars == <<nodes, listIter, listHist>>
sumVars == <<sum, sumHist>>
builderVars == <<builder, builderHist>>
bumpVars == <<bump, bumpHist>>
arenaVars == <<arena, heap, arenaHist>>

\* ----------------------------------------------------------------- helpers
\* uint32_t arithmetic wraps.
U32(x) == x % (U32Max + 1)
\* size_t arithmetic wraps.
Size(x) == x % (SizeMax + 1)

NULL == 0
\* &memory[off]: the address off bytes into block memory; &NULL[0] is NULL.
Ptr(memory, off) == [base |-> memory, off |-> off]
NullPtr == Ptr(NULL, 0)

\* --------------------------------------------------------------- idle state
NoIter == [next |-> "unset"]
NoScan == [ret |-> "unset", append |-> "unset"]
NoAllocator == [alloc |-> "unset", free |-> "unset", realloc |-> "unset"]
NoRange == [state |-> "none", iter |-> NoIter, current |-> 0, end |-> 0]
NoRangeHist == [start |-> 0, end |-> 0, calls |-> 0, trues |-> 0, falses |-> 0,
                pre |-> 0, preResult |-> 0, ret |-> FALSE]
NoListIter == [state |-> "none", iter |-> NoIter, current |-> NULL]
NoListHist == [root |-> NULL, log |-> <<>>]

NoSum == [state |-> "none", scan |-> NoScan, sum |-> 0]
NoSumHist == [total |-> 0, n |-> 0, inOrder |-> TRUE, op |-> "none", prevop |-> "none",
              out |-> 0, prevout |-> 0, pre |-> NoSum]
NoBuilder == [state |-> "none", scan |-> NoScan, strings |-> <<>>, count |-> 0,
              length |-> 0, slots |-> 0]
NoBuilderHist == [capacity |-> 0, appended |-> <<>>, op |-> "none", prevop |-> "none",
                  out |-> <<>>, prevout |-> <<>>, pre |-> NoBuilder]
NoBump == [state |-> "none", allocator |-> NoAllocator, memory |-> NULL, count |-> 0,
           length |-> 0]
NoCall == [op |-> "none", size |-> 0, ptr |-> NullPtr, ret |-> NullPtr]
NoBumpHist == [capacity |-> 0, memory |-> NULL, call |-> NoCall, pre |-> NoBump]
NoArena == [state |-> "none", allocator |-> NoAllocator, backing_allocator |-> "unset",
            memory |-> NULL, count |-> 0, length |-> 0]
NoBacking == [op |-> "none", size |-> 0, ptr |-> NULL]
NoArenaHist == [call |-> NoCall, backing |-> NoBacking, pre |-> NoArena]

\* Each test block of main has objects of its own: a run exercises one object.
RangeIdle == range.state = "none"
ListIdle == nodes = <<>> /\ listIter.state = "none"
SumIdle == sum.state = "none"
BuilderIdle == builder.state = "none"
BumpIdle == bump.state = "none"
ArenaIdle == arena.state = "none"

\* ==================================================================== Range
\* range_create(start, end): the assert rejects end = UINT32_MAX (the build of the
\* README, gcc iter.c -o iter, keeps assertions).
RangeCreateMutNoAssert(start, end) ==
    [state |-> "live", iter |-> [next |-> "range_next"], current |-> start, end |-> end]

range_create(start, end) ==
    IF end = U32Max
    THEN [state |-> "aborted", iter |-> NoIter, current |-> 0, end |-> 0]
    ELSE [state |-> "live", iter |-> [next |-> "range_next"],
          current |-> start, end |-> end]

RangeCreate ==
    /\ RangeIdle /\ ListIdle /\ SumIdle /\ BuilderIdle /\ BumpIdle /\ ArenaIdle
    /\ \E start \in 0..U32Max, end \in 0..U32Max :
          /\ range' = range_create(start, end)
          /\ rangeHist' = [rangeHist EXCEPT !.start = start, !.end = end]
    /\ rangeResult' = 0
    /\ UNCHANGED <<listVars, sumVars, builderVars, bumpVars, arenaVars>>

\* range_next: *result = current; current++; return current <= end.
range_next_ret(r) == U32(r.current + 1) <= r.end

RangeNext ==
    /\ range.state = "live"
    /\ rangeHist.calls < U32Max + 3
    /\ rangeResult' = range.current
    /\ range' = [range EXCEPT !.current = U32(range.current + 1)]
    /\ rangeHist' = [rangeHist EXCEPT
                       !.calls = @ + 1,
                       !.trues = IF range_next_ret(range) THEN @ + 1 ELSE @,
                       !.falses = IF range_next_ret(range) THEN @ ELSE @ + 1,
                       !.pre = range.current,
                       !.preResult = rangeResult,
                       !.ret = range_next_ret(range)]
    /\ UNCHANGED <<listVars, sumVars, builderVars, bumpVars, arenaVars>>

\* ================================================================= ListIter
\* list_create(next, data): a new node whose link is an existing node or NULL.
list_create(next, data) == [next |-> next, data |-> data]

ListCreate ==
    /\ listIter.state = "none"
    /\ RangeIdle /\ SumIdle /\ BuilderIdle /\ BumpIdle /\ ArenaIdle
    /\ Len(nodes) < MaxNodes
    /\ \E next \in 0..Len(nodes), data \in 1..MaxData :
          nodes' = Append(nodes, list_create(next, data))
    /\ UNCHANGED <<listIter, listHist>>
    /\ UNCHANGED <<rangeVars, sumVars, builderVars, bumpVars, arenaVars>>

list_iter_create(root) ==
    [state |-> "live", iter |-> [next |-> "list_iter_next"], current |-> root]

ListIterCreate ==
    /\ listIter.state = "none"
    /\ RangeIdle /\ SumIdle /\ BuilderIdle /\ BumpIdle /\ ArenaIdle
    /\ \E root \in 0..Len(nodes) :
          /\ listIter' = list_iter_create(root)
          /\ listHist' = [root |-> root, log |-> <<>>]
    /\ UNCHANGED nodes
    /\ UNCHANGED <<rangeVars, sumVars, builderVars, bumpVars, arenaVars>>

\* list_iter_next: *result = current; step to current->next only when current
\* is not NULL; return whether current was not NULL.
ListIterNextMutAlwaysStep(it) ==
    [value |-> it.current,
     ret |-> it.current # NULL /\ nodes[it.current].next # NULL,
     current |-> IF it.current # NULL THEN nodes[it.current].next ELSE NULL]

list_iter_next(it) ==
    LET more_nodes == it.current # NULL
    IN  [value |-> it.current,
         ret |-> more_nodes,
         current |-> IF more_nodes THEN nodes[it.current].next ELSE it.current]

ListIterNext ==
    /\ listIter.state = "live"
    /\ Len(listHist.log) < MaxNodes + 3
    /\ LET r == list_iter_next(listIter)
       IN  /\ listIter' = [listIter EXCEPT !.current = r.current]
           /\ listHist' = [listHist EXCEPT !.log = Append(@, r)]
    /\ UNCHANGED nodes
    /\ UNCHANGED <<rangeVars, sumVars, builderVars, bumpVars, arenaVars>>

\* ====================================================================== Sum
\* main appends value = 0, 1, ..., loop_cap in this order.
loop_cap == 10
\* The values offered to the n-th append (n from 0): the value main's loop has
\* reached, or another one.
SumValues(n) == {U32(n), 1, U32Max}

sum_create == [state |-> "live", scan |-> [ret |-> "sum_return", append |-> "sum_append"],
               sum |-> 0]

SumCreate ==
    /\ RangeIdle /\ ListIdle /\ SumIdle /\ BuilderIdle /\ BumpIdle /\ ArenaIdle
    /\ sum' = sum_create
    /\ sumHist' = [NoSumHist EXCEPT !.op = "create", !.pre = sum]
    /\ UNCHANGED <<rangeVars, listVars, builderVars, bumpVars, arenaVars>>

\* sum_append: sum->sum += *addend, in uint32_t.
SumAppendMutAssign(s, addend) == [s EXCEPT !.sum = addend]

sum_append(s, addend) == [s EXCEPT !.sum = U32(s.sum + addend)]

SumAppend ==
    /\ sum.state = "live"
    /\ sumHist.n < MaxSumAppends
    /\ \E addend \in SumValues(sumHist.n) :
          /\ sum' = sum_append(sum, addend)
          /\ sumHist' = [sumHist EXCEPT
                           !.total = @ + addend,
                           !.n = @ + 1,
                           !.inOrder = @ /\ addend = sumHist.n,
                           !.prevop = sumHist.op,
                           !.op = "append",
                           !.out = 0,
                           !.prevout = 0,
                           !.pre = sum]
    /\ UNCHANGED <<rangeVars, listVars, builderVars, bumpVars, arenaVars>>

\* sum_return: *result = sum->sum; the Sum itself is not written.
sum_return(s) == [result |-> s.sum, sum |-> s]

SumReturn ==
    /\ sum.state = "live"
    /\ sum' = sum_return(sum).sum
    /\ sumHist' = [sumHist EXCEPT !.prevop = sumHist.op,
                                  !.op = "return",
                                  !.prevout = sumHist.out,
                                  !.out = sum_return(sum).result,
                                  !.pre = sum]
    /\ UNCHANGED <<rangeVars, listVars, builderVars, bumpVars, arenaVars>>

\* ============================================================ StringBuilder
\* The strings main appends, as sequences of characters.
Building == <<"b", "u", "i", "l", "d", "i", "n", "g", " ">>
A == <<"a", " ">>
String == <<"s", "t", "r", "i", "n", "g", " ">>
Incrementally == <<"i", "n", "c", "r", "e", "m", "e", "n", "t", "a", "l", "l", "y", ".">>
TestStrings == <<Building, A, String, Incrementally>>
Strings == {TestStrings[i] : i \in 1..Len(TestStrings)}
\* The strings offered to the n-th append (n from 0): the one main appends
\* there, or another one.
StringValues(n) == {TestStrings[(n % Len(TestStrings)) + 1], A}
\* What a slot outside the allocated array reads as once it has been overwritten.
Junk == <<"?">>
\* The terminator '\0'.
NUL == "\\0"

\* calloc(sizeof(char*), capacity): capacity pointer slots; count 0, length capacity.
\* calloc and realloc are taken to succeed here (their results are not checked);
\* the failure of an allocation is modelled for the heap allocator below.
string_builder_create(capacity) ==
    [state |-> "live",
     scan |-> [ret |-> "string_builder_return", append |-> "string_builder_append"],
     strings |-> <<>>, count |-> 0, length |-> capacity, slots |-> capacity]

StringBuilderCreate ==
    /\ RangeIdle /\ ListIdle /\ SumIdle /\ BuilderIdle /\ BumpIdle /\ ArenaIdle
    /\ \E capacity \in 0..MaxCapacity :
          /\ builder' = string_builder_create(capacity)
          /\ builderHist' = [NoBuilderHist EXCEPT !.op = "create", !.capacity = capacity]
    /\ UNCHANGED <<rangeVars, listVars, sumVars, bumpVars, arenaVars>>

\* What the array holds after realloc(strings, new_length) left only `slots`
\* pointer slots allocated: a slot inside the allocation keeps its pointer, a slot
\* outside it is no longer part of the object and holds its old pointer or junk.
Survive(strings, slots) ==
    {s \in [1..Len(strings) -> Strings \cup {Junk}] :
        \A i \in 1..Len(strings) :
            IF i <= slots THEN s[i] = strings[i] ELSE s[i] \in {strings[i], Junk}}

\* strings[index] = string: inside the allocation the pointer is stored; outside
\* it the store is out of bounds and later reads find the pointer or junk.
Written(string, index, slots) == IF index < slots THEN {string} ELSE {string, Junk}

\* string_builder_append: when count == length, new_length = length * 2 and
\* strings = realloc(strings, new_length), a size in bytes, not in pointers; then
\* strings[count] = string and count++.  The set of builders that can result.
StringBuilderAppendMutNoGrow(b, string) ==
    {[b EXCEPT !.strings = Append(b.strings, string), !.count = U32(b.count + 1)]}

string_builder_append(b, string) ==
    LET grow == b.count = b.length
        new_length == U32(b.length * 2)
        length1 == IF grow THEN new_length ELSE b.length
        slots1 == IF grow THEN new_length \div PtrSize ELSE b.slots
        kept == IF grow THEN Survive(b.strings, slots1) ELSE {b.strings}
    IN  {[b EXCEPT !.strings = Append(old, new),
                   !.count = U32(b.count + 1),
                   !.length = length1,
                   !.slots = slots1] :
            old \in kept, new \in Written(string, b.count, slots1)}

StringBuilderAppend ==
    /\ builder.state = "live"
    /\ Len(builderHist.appended) < MaxAppends
    /\ \E string \in StringValues(Len(builderHist.appended)) :
          /\ builder' \in string_builder_append(builder, string)
          /\ builderHist' = [builderHist EXCEPT
                               !.appended = Append(@, string),
                               !.prevop = builderHist.op,
                               !.op = "append",
                               !.pre = builder]
    /\ UNCHANGED <<rangeVars, listVars, sumVars, bumpVars, arenaVars>>

\* The loop of string_builder_return from index on: memcpy of each string.
RECURSIVE Copied(_, _, _)
Copied(strings, index, count) ==
    IF index >= count THEN <<>>
    ELSE strings[index + 1] \o Copied(strings, index + 1, count)

\* string_builder_return: the strings copied in index order, then '\0'; the
\* builder itself is not written.
StringBuilderReturnMutConsume(b) ==
    [result |-> Copied(b.strings, 0, b.count) \o <<NUL>>,
     builder |-> [b EXCEPT !.count = 0, !.strings = <<>>]]

string_builder_return(b) ==
    [result |-> Copied(b.strings, 0, b.count) \o <<NUL>>, builder |-> b]

StringBuilderReturn ==
    /\ builder.state = "live"
    /\ builder' = string_builder_return(builder).builder
    /\ builderHist' = [builderHist EXCEPT
                         !.prevop = builderHist.op,
                         !.op = "return",
                         !.prevout = builderHist.out,
                         !.out = string_builder_return(builder).result,
                         !.pre = builder]
    /\ UNCHANGED <<rangeVars, listVars, sumVars, bumpVars, arenaVars>>

\* string_builder_destroy: free(strings) and strings = NULL when it is not NULL.
string_builder_destroy(b) ==
    [b EXCEPT !.state = "destroyed", !.strings = <<>>, !.slots = 0]

StringBuilderDestroy ==
    /\ builder.state = "live"
    /\ builder' = string_builder_destroy(builder)
    /\ builderHist' = [builderHist EXCEPT !.prevop = builderHist.op,
                                          !.op = "destroy", !.pre = builder]
    /\ UNCHANGED <<rangeVars, listVars, sumVars, bumpVars, arenaVars>>

\* ============================================================ BumpAllocator
\* The pointers a caller passes as ptr or old_ptr: NULL, or into a block.
Pointers(memory) == {NullPtr, Ptr(memory, 1)}

\* bump_allocator_create(capacity, memory): the caller's block, count 0.
bump_allocator_create(capacity, memory) ==
    [state |-> "created",
     allocator |-> [alloc |-> "bump_allocator_alloc", free |-> "bump_allocator_free",
                    realloc |-> "bump_allocator_realloc"],
     memory |-> memory, count |-> 0, length |-> capacity]

BumpCreate ==
    /\ RangeIdle /\ ListIdle /\ SumIdle /\ BuilderIdle /\ BumpIdle /\ ArenaIdle
    /\ \E capacity \in 0..SizeMax :
          /\ bump' = bump_allocator_create(capacity, 1)
          /\ bumpHist' = [capacity |-> capacity, memory |-> 1,
                          call |-> [NoCall EXCEPT !.op = "create"], pre |-> bump]
    /\ UNCHANGED <<rangeVars, listVars, sumVars, builderVars, arenaVars>>

\* bump_allocator_destroy: memory = NULL when it is not NULL.
bump_allocator_destroy(b) == IF b.memory # NULL THEN [b EXCEPT !.memory = NULL] ELSE b

BumpDestroy ==
    /\ bump.state = "created"
    /\ bump' = bump_allocator_destroy(bump)
    /\ bumpHist' = [bumpHist EXCEPT !.call = [NoCall EXCEPT !.op = "destroy"],
                                    !.pre = bump]
    /\ UNCHANGED <<rangeVars, listVars, sumVars, builderVars, arenaVars>>

\* bump_allocator_alloc: when (count + size) < length, in size_t, the result is
\* &memory[count] and count += size; otherwise NULL.
BumpAllocMutInclusive(b, size) ==
    IF Size(b.count + size) <= b.length
    THEN [ret |-> Ptr(b.memory, b.count), bump |-> [b EXCEPT !.count = Size(b.count + size)]]
    ELSE [ret |-> NullPtr, bump |-> b]

BumpAllocMutGrow(b, size) ==
    IF Size(b.count + size) < b.length
    THEN [ret |-> Ptr(b.memory, b.count), bump |-> [b EXCEPT !.count = Size(b.count + size)]]
    ELSE [ret |-> NullPtr, bump |-> [b EXCEPT !.length = Size(b.count + size)]]

BumpAllocMutNoCheck(b, size) ==
    [ret |-> Ptr(b.memory, b.count), bump |-> [b EXCEPT !.count = Size(b.count + size)]]

bump_allocator_alloc(b, size) ==
    IF Size(b.count + size) < b.length
    THEN [ret |-> Ptr(b.memory, b.count), bump |-> [b EXCEPT !.count = Size(b.count + size)]]
    ELSE [ret |-> NullPtr, bump |-> b]

BumpAlloc ==
    /\ bump.state = "created"
    /\ \E size \in 0..SizeMax :
          LET r == bump_allocator_alloc(bump, size)
          IN  /\ bump' = r.bump
              /\ bumpHist' = [bumpHist EXCEPT
                                !.call = [op |-> "alloc", size |-> size, ptr |-> NullPtr,
                                          ret |-> r.ret],
                                !.pre = bump]
    /\ UNCHANGED <<rangeVars, listVars, sumVars, builderVars, arenaVars>>

\* bump_allocator_free: nothing is freed.
BumpFreeMutPop(b, ptr) == IF ptr # NullPtr THEN [b EXCEPT !.count = ptr.off] ELSE b

bump_allocator_free(b, ptr) == b

BumpFree ==
    /\ bump.state = "created"
    /\ \E ptr \in Pointers(bumpHist.memory) :
          /\ bump' = bump_allocator_free(bump, ptr)
          /\ bumpHist' = [bumpHist EXCEPT
                            !.call = [op |-> "free", size |-> 0, ptr |-> ptr,
                                      ret |-> NullPtr],
                            !.pre = bump]
    /\ UNCHANGED <<rangeVars, listVars, sumVars, builderVars, arenaVars>>

\* bump_allocator_realloc: the allocator's own alloc slot, called with size;
\* old_ptr is not used.
BumpReallocMutInPlace(b, old_ptr, size) ==
    IF old_ptr # NullPtr /\ Size(old_ptr.off + size) < b.length
    THEN [ret |-> old_ptr, bump |-> b]
    ELSE bump_allocator_alloc(b, size)

bump_allocator_realloc(b, old_ptr, size) ==
    IF b.allocator.alloc = "bump_allocator_alloc"
    THEN bump_allocator_alloc(b, size)
    ELSE [ret |-> NullPtr, bump |-> b]

BumpRealloc ==
    /\ bump.state = "created"
    /\ \E size \in 0..SizeMax, old_ptr \in Pointers(bumpHist.memory) :
          LET r == bump_allocator_realloc(bump, old_ptr, size)
          IN  /\ bump' = r.bump
              /\ bumpHist' = [bumpHist EXCEPT
                                !.call = [op |-> "realloc", size |-> size,
                                          ptr |-> old_ptr, ret |-> r.ret],
                                !.pre = bump]
    /\ UNCHANGED <<rangeVars, listVars, sumVars, builderVars, arenaVars>>

\* bump_allocator_free_all: count = 0.
BumpFreeAllMutKeep(b) == b

bump_allocator_free_all(b) == [b EXCEPT !.count = 0]

BumpFreeAll ==
    /\ bump.state = "created"
    /\ bump' = bump_allocator_free_all(bump)
    /\ bumpHist' = [bumpHist EXCEPT !.call = [NoCall EXCEPT !.op = "free_all"],
                                    !.pre = bump]
    /\ UNCHANGED <<rangeVars, listVars, sumVars, builderVars, arenaVars>>

\* ============================================================ HeapAllocator
\* The system heap: block i is heap[i] = [size, live, frees]; malloc hands out a
\* new block or fails, and always fails once MaxBlocks blocks have been handed out.
\* The set of outcomes [ret, heap] of each call.

\* heap_allocator_alloc: malloc(size).
heap_allocator_alloc(h, size) ==
    {[ret |-> NULL, heap |-> h]} \cup
    (IF Len(h) < MaxBlocks
     THEN {[ret |-> Len(h) + 1,
            heap |-> Append(h, [size |-> size, live |-> TRUE, frees |-> 0])]}
     ELSE {})

\* heap_allocator_free: free(ptr); free(NULL) does nothing.
heap_allocator_free(h, ptr) ==
    IF ptr = NULL THEN h
    ELSE [h EXCEPT ![ptr].live = FALSE, ![ptr].frees = @ + 1]

\* heap_allocator_realloc: realloc(old_ptr, new_size): it fails and leaves the
\* old block alone, or resizes the block in place, or moves it to a new block
\* and frees the old one; realloc(NULL, new_size) is malloc(new_size).
heap_allocator_realloc(h, old_ptr, new_size) ==
    IF old_ptr = NULL THEN heap_allocator_alloc(h, new_size)
    ELSE {[ret |-> NULL, heap |-> h]} \cup
         {[ret |-> old_ptr, heap |-> [h EXCEPT ![old_ptr].size = new_size]]} \cup
         (IF Len(h) < MaxBlocks
          THEN {[ret |-> Len(h) + 1,
                 heap |-> Append(heap_allocator_free(h, old_ptr),
                                 [size |-> new_size, live |-> TRUE, frees |-> 0])]}
          ELSE {})

\* =========================================================== ArenaAllocator
\* arena_allocator_create(backing_allocator): no memory, count 0, length 0.
arena_allocator_create(backing_allocator) ==
    [state |-> "created",
     allocator |-> [alloc |-> "arena_allocator_alloc", free |-> "arena_allocator_free",
                    realloc |-> "arena_allocator_realloc"],
     backing_allocator |-> backing_allocator,
     memory |-> NULL, count |-> 0, length |-> 0]

ArenaCreate ==
    /\ RangeIdle /\ ListIdle /\ SumIdle /\ BuilderIdle /\ BumpIdle /\ ArenaIdle
    /\ arena' = arena_allocator_create("heap_allocator")
    /\ arenaHist' = [NoArenaHist EXCEPT !.call.op = "create", !.pre = arena]
    /\ UNCHANGED heap
    /\ UNCHANGED <<rangeVars, listVars, sumVars, builderVars, bumpVars>>

\* arena_allocator_destroy: when memory is not NULL, the backing allocator's free
\* is called with it and memory = NULL.
ArenaDestroyMutKeepPointer(a, h) ==
    IF a.memory # NULL
    THEN [arena |-> a,
          heap |-> heap_allocator_free(h, a.memory),
          backing |-> [op |-> "free", size |-> 0, ptr |-> a.memory]]
    ELSE [arena |-> a, heap |-> h, backing |-> NoBacking]

arena_allocator_destroy(a, h) ==
    IF a.memory # NULL
    THEN [arena |-> [a EXCEPT !.memory = NULL],
          heap |-> heap_allocator_free(h, a.memory),
          backing |-> [op |-> "free", size |-> 0, ptr |-> a.memory]]
    ELSE [arena |-> a, heap |-> h, backing |-> NoBacking]

ArenaDestroy ==
    /\ arena.state = "created"
    /\ LET r == arena_allocator_destroy(arena, heap)
       IN  /\ arena' = r.arena
           /\ heap' = r.heap
           /\ arenaHist' = [call |-> [NoCall EXCEPT !.op = "destroy"],
                            backing |-> r.backing, pre |-> arena]
    /\ UNCHANGED <<rangeVars, listVars, sumVars, builderVars, bumpVars>>

\* arena_allocator_clear: count = 0.
ArenaClearMutRelease(a) == [a EXCEPT !.count = 0, !.memory = NULL]

ArenaClearMutRewire(a) == [a EXCEPT !.count = 0, !.allocator = NoAllocator]

arena_allocator_clear(a) == [a EXCEPT !.count = 0]

ArenaClear ==
    /\ arena.state = "created"
    /\ arena' = arena_allocator_clear(arena)
    /\ arenaHist' = [call |-> [NoCall EXCEPT !.op = "clear"],
                     backing |-> NoBacking, pre |-> arena]
    /\ UNCHANGED heap
    /\ UNCHANGED <<rangeVars, listVars, sumVars, builderVars, bumpVars>>

\* The new length when new_count does not fit: length * 2, or new_count when
\* that is smaller than new_count.
ArenaNewLengthMutDouble(length, new_count) == Size(length * 2)

ArenaNewLength(length, new_count) ==
    LET new_length == Size(length * 2)
    IN  IF new_length < new_count THEN new_count ELSE new_length

\* Whether the arena has to get a larger block: new_count > length.
ArenaGrowsMutLess(a, new_count) == new_count < a.length

ArenaGrows(a, new_count) == new_count > a.length

\* arena_allocator_alloc: new_count = count + size; when it does not fit, memory
\* = backing alloc(new_count), unchecked, and length = new_length; the result is
\* &memory[count] and count = new_count.  The set of outcomes.
arena_allocator_alloc(a, h, size) ==
    LET new_count == Size(a.count + size)
    IN  IF ArenaGrows(a, new_count)
        THEN {[ret |-> Ptr(m.ret, a.count),
               arena |-> [a EXCEPT !.memory = m.ret,
                                   !.length = ArenaNewLength(a.length, new_count),
                                   !.count = new_count],
               heap |-> m.heap,
               backing |-> [op |-> "alloc", size |-> new_count, ptr |-> NULL]] :
                 m \in heap_allocator_alloc(h, new_count)}
        ELSE {[ret |-> Ptr(a.memory, a.count),
               arena |-> [a EXCEPT !.count = new_count],
               heap |-> h,
               backing |-> NoBacking]}

ArenaAlloc ==
    /\ arena.state = "created"
    /\ \E size \in 0..SizeMax :
          \E r \in arena_allocator_alloc(arena, heap, size) :
              /\ arena' = r.arena
              /\ heap' = r.heap
              /\ arenaHist' = [call |-> [op |-> "alloc", size |-> size, ptr |-> NullPtr,
                                         ret |-> r.ret],
                               backing |-> r.backing, pre |-> arena]
    /\ UNCHANGED <<rangeVars, listVars, sumVars, builderVars, bumpVars>>

\* arena_allocator_free: nothing is freed.
arena_allocator_free(a, ptr) == a

ArenaFree ==
    /\ arena.state = "created"
    /\ \E ptr \in Pointers(arena.memory) :
          /\ arena' = arena_allocator_free(arena, ptr)
          /\ arenaHist' = [call |-> [op |-> "free", size |-> 0, ptr |-> ptr,
                                     ret |-> NullPtr],
                           backing |-> NoBacking, pre |-> arena]
    /\ UNCHANGED heap
    /\ UNCHANGED <<rangeVars, listVars, sumVars, builderVars, bumpVars>>

\* arena_allocator_realloc: as arena_allocator_alloc, but when new_count does not
\* fit, memory = backing realloc(memory, new_length); old_ptr is not used.
ArenaReallocMutInPlace(a, h, old_ptr, size) ==
    IF old_ptr # NullPtr
    THEN {[ret |-> old_ptr, arena |-> a, heap |-> h, backing |-> NoBacking]}
    ELSE arena_allocator_alloc(a, h, size)

arena_allocator_realloc(a, h, old_ptr, size) ==
    LET new_count == Size(a.count + size)
        new_length == ArenaNewLength(a.length, new_count)
    IN  IF ArenaGrows(a, new_count)
        THEN {[ret |-> Ptr(m.ret, a.count),
               arena |-> [a EXCEPT !.memory = m.ret,
                                   !.length = new_length,
                                   !.count = new_count],
               heap |-> m.heap,
               backing |-> [op |-> "realloc", size |-> new_length, ptr |-> a.memory]] :
                 m \in heap_allocator_realloc(h, a.memory, new_length)}
        ELSE {[ret |-> Ptr(a.memory, a.count),
               arena |-> [a EXCEPT !.count = new_count],
               heap |-> h,
               backing |-> NoBacking]}

ArenaRealloc ==
    /\ arena.state = "created"
    /\ \E size \in 0..SizeMax, old_ptr \in Pointers(arena.memory) :
          \E r \in arena_allocator_realloc(arena, heap, old_ptr, size) :
              /\ arena' = r.arena
              /\ heap' = r.heap
              /\ arenaHist' = [call |-> [op |-> "realloc", size |-> size,
                                         ptr |-> old_ptr, ret |-> r.ret],
                               backing |-> r.backing, pre |-> arena]
    /\ UNCHANGED <<rangeVars, listVars, sumVars, builderVars, bumpVars>>

\* ================================================ ArenaAllocator, the variant
\* The variant source keeps count and length in uint32_t and tests new_count <
\* length before it grows.  Its create, destroy, clear and free are those above.
variant_arena_allocator_create(backing_allocator) ==
    [arena_allocator_create(backing_allocator) EXCEPT !.state = "variant"]

VariantArenaCreate ==
    /\ RangeIdle /\ ListIdle /\ SumIdle /\ BuilderIdle /\ BumpIdle /\ ArenaIdle
    /\ arena' = variant_arena_allocator_create("heap_allocator")
    /\ arenaHist' = [NoArenaHist EXCEPT !.call.op = "create", !.pre = arena]
    /\ UNCHANGED heap
    /\ UNCHANGED <<rangeVars, listVars, sumVars, builderVars, bumpVars>>

VariantArenaDestroy ==
    /\ arena.state = "variant"
    /\ LET r == arena_allocator_destroy(arena, heap)
       IN  /\ arena' = r.arena
           /\ heap' = r.heap
           /\ arenaHist' = [call |-> [NoCall EXCEPT !.op = "destroy"],
                            backing |-> r.backing, pre |-> arena]
    /\ UNCHANGED <<rangeVars, listVars, sumVars, builderVars, bumpVars>>

VariantArenaClear ==
    /\ arena.state = "variant"
    /\ arena' = arena_allocator_clear(arena)
    /\ arenaHist' = [call |-> [NoCall EXCEPT !.op = "clear"],
                     backing |-> NoBacking, pre |-> arena]
    /\ UNCHANGED heap
    /\ UNCHANGED <<rangeVars, listVars, sumVars, builderVars, bumpVars>>

VariantArenaFree ==
    /\ arena.state = "variant"
    /\ \E ptr \in Pointers(arena.memory) :
          /\ arena' = arena_allocator_free(arena, ptr)
          /\ arenaHist' = [call |-> [op |-> "free", size |-> 0, ptr |-> ptr,
                                     ret |-> NullPtr],
                           backing |-> NoBacking, pre |-> arena]
    /\ UNCHANGED heap
    /\ UNCHANGED <<rangeVars, listVars, sumVars, builderVars, bumpVars>>

\* The new length of the variant, in uint32_t.
VariantArenaNewLength(length, new_count) ==
    LET new_length == U32(length * 2)
    IN  IF new_length < new_count THEN new_count ELSE new_length

\* The variant's test before it gets a block: new_count < length.
VariantArenaGrows(a, new_count) == new_count < a.length

\* arena_allocator_alloc of the variant: new_count = count + size in uint32_t;
\* when new_count < length, memory = backing alloc(new_count), unchecked, and
\* length = new_length; the result is &memory[count] and count = new_count.
variant_arena_allocator_alloc(a, h, size) ==
    LET new_count == U32(a.count + size)
    IN  IF VariantArenaGrows(a, new_count)
        THEN {[ret |-> Ptr(m.ret, a.count),
               arena |-> [a EXCEPT !.memory = m.ret,
                                   !.length = VariantArenaNewLength(a.length, new_count),
                                   !.count = new_count],
               heap |-> m.heap,
               backing |-> [op |-> "alloc", size |-> new_count, ptr |-> NULL]] :
                 m \in heap_allocator_alloc(h, new_count)}
        ELSE {[ret |-> Ptr(a.memory, a.count),
               arena |-> [a EXCEPT !.count = new_count],
               heap |-> h,
               backing |-> NoBacking]}

VariantArenaAlloc ==
    /\ arena.state = "variant"
    /\ \E size \in 0..SizeMax :
          \E r \in variant_arena_allocator_alloc(arena, heap, size) :
              /\ arena' = r.arena
              /\ heap' = r.heap
              /\ arenaHist' = [call |-> [op |-> "alloc", size |-> size, ptr |-> NullPtr,
                                         ret |-> r.ret],
                               backing |-> r.backing, pre |-> arena]
    /\ UNCHANGED <<rangeVars, listVars, sumVars, builderVars, bumpVars>>

\* arena_allocator_realloc of the variant: the same, with memory = backing
\* realloc(memory, new_count); old_ptr is not used.
variant_arena_allocator_realloc(a, h, old_ptr, size) ==
    LET new_count == U32(a.count + size)
    IN  IF VariantArenaGrows(a, new_count)
        THEN {[ret |-> Ptr(m.ret, a.count),
               arena |-> [a EXCEPT !.memory = m.ret,
                                   !.length = VariantArenaNewLength(a.length, new_count),
                                   !.count = new_count],
               heap |-> m.heap,
               backing |-> [op |-> "realloc", size |-> new_count, ptr |-> a.memory]] :
                 m \in heap_allocator_realloc(h, a.memory, new_count)}
        ELSE {[ret |-> Ptr(a.memory, a.count),
               arena |-> [a EXCEPT !.count = new_count],
               heap |-> h,
               backing |-> NoBacking]}

VariantArenaRealloc ==
    /\ arena.state = "variant"
    /\ \E size \in 0..SizeMax, old_ptr \in Pointers(arena.memory) :
          \E r \in variant_arena_allocator_realloc(arena, heap, old_ptr, size) :
              /\ arena' = r.arena
              /\ heap' = r.heap
              /\ arenaHist' = [call |-> [op |-> "realloc", size |-> size,
                                         ptr |-> old_ptr, ret |-> r.ret],
                               backing |-> r.backing, pre |-> arena]
    /\ UNCHANGED <<rangeVars, listVars, sumVars, builderVars, bumpVars>>

\* ============================================================ specifications
Init ==
    /\ range = NoRange /\ rangeResult = 0 /\ rangeHist = NoRangeHist
    /\ nodes = <<>> /\ listIter = NoListIter /\ listHist = NoListHist
    /\ sum = NoSum /\ sumHist = NoSumHist
    /\ builder = NoBuilder /\ builderHist = NoBuilderHist
    /\ bump = NoBump /\ bumpHist = NoBumpHist
    /\ arena = NoArena /\ heap = <<>> /\ arenaHist = NoArenaHist

\* iter.c
NextIter == RangeCreate \/ RangeNext \/ ListCreate \/ ListIterCreate \/ ListIterNext
SpecIter == Init /\ [][NextIter]_vars

\* scan.c
NextScan ==
    \/ SumCreate \/ SumAppend \/ SumReturn
    \/ StringBuilderCreate \/ StringBuilderAppend \/ StringBuilderReturn
    \/ StringBuilderDestroy
SpecScan == Init /\ [][NextScan]_vars

\* The bump allocator of alloc.c
NextBump ==
    \/ BumpCreate \/ BumpDestroy \/ BumpAlloc \/ BumpFree \/ BumpRealloc \/ BumpFreeAll
SpecBump == Init /\ [][NextBump]_vars

\* The arena allocator of alloc.c over the heap allocator
NextArena ==
    \/ ArenaCreate \/ ArenaDestroy \/ ArenaClear \/ ArenaAlloc \/ ArenaFree
    \/ ArenaRealloc
SpecArena == Init /\ [][NextArena]_vars

\* Both allocators of alloc.c
NextAlloc == NextBump \/ NextArena
SpecAlloc == Init /\ [][NextAlloc]_vars

\* The arena allocator of the variant source over the heap allocator
NextVariant ==
    \/ VariantArenaCreate \/ VariantArenaDestroy \/ VariantArenaClear
    \/ VariantArenaAlloc \/ VariantArenaFree \/ VariantArenaRealloc
SpecVariant == Init /\ [][NextVariant]_vars

Next == NextIter \/ NextScan \/ NextBump \/ NextArena \/ NextVariant
Spec == Init /\ [][Next]_vars

\* =================================================================== claims

\* C1: for range_create(start, end) with start <= end < UINT32_MAX, every
\* range_next returns whether the value it wrote (the current before the
\* increment) lies in [start, end]; the calls that return true write start,
\* start+1, ... in ascending order, and there are end-start+1 of them when the
\* first false is returned.
C1_RangeYieldsStartToEnd ==
    (range.state = "live" /\ rangeHist.calls > 0 /\ rangeHist.start <= rangeHist.end) =>
        /\ rangeHist.ret = (rangeHist.start <= rangeHist.pre /\ rangeHist.pre <= rangeHist.end)
        /\ rangeHist.ret => rangeResult = rangeHist.start + rangeHist.trues - 1
        /\ (~rangeHist.ret /\ rangeHist.falses = 1) =>
               rangeHist.trues = rangeHist.end - rangeHist.start + 1

\* C2: on a bump allocator whose memory is not NULL, bump_allocator_alloc(size)
\* succeeds exactly when count + size < length (as computed in size_t), so not
\* when the request exactly fills the buffer; on success the result is
\* &memory[old count] and count is old count + size, otherwise the result is NULL.
C2_BumpAllocStrict ==
    (bumpHist.call.op = "alloc" /\ bumpHist.pre.memory # NULL) =>
        LET pre == bumpHist.pre
            size == bumpHist.call.size
            ret == bumpHist.call.ret
            fits == Size(pre.count + size) < pre.length
        IN  /\ (ret # NullPtr) <=> fits
            /\ fits => /\ ret = Ptr(pre.memory, pre.count)
                       /\ bump.count = Size(pre.count + size)
            /\ pre.count + size = pre.length => ret = NullPtr

C2_Witness ==
    /\ bumpHist.call.op = "alloc"
    /\ bumpHist.pre.memory # NULL
    /\ bumpHist.pre.count > 0
    /\ bumpHist.call.size > 0
    /\ bumpHist.call.ret # NullPtr
    /\ bump.count + 1 = bump.length

\* C3: a bump alloc or realloc that does not fit returns NULL and leaves count,
\* length and memory as they were; length is always the capacity given to
\* bump_allocator_create.
C3_BumpFailureLeavesState ==
    bump.state = "created" =>
        /\ bump.length = bumpHist.capacity
        /\ (/\ bumpHist.call.op \in {"alloc", "realloc"}
            /\ ~(Size(bumpHist.pre.count + bumpHist.call.size) < bumpHist.pre.length)) =>
               /\ bumpHist.call.ret = NullPtr
               /\ bump = bumpHist.pre

C3_Witness ==
    /\ bumpHist.call.op \in {"alloc", "realloc"}
    /\ bumpHist.pre.memory # NULL
    /\ bumpHist.pre.count > 0
    /\ bumpHist.pre.count + bumpHist.call.size >= bumpHist.pre.length
    /\ bumpHist.call.ret = NullPtr
    /\ bump.count = bumpHist.pre.count

\* C4: arena_allocator_create gives memory NULL, count 0, length 0.  After
\* arena_allocator_alloc(size), with new_count = count + size: when new_count >
\* length, length is 2 * length, or new_count when 2 * length < new_count, and
\* memory is what the backing allocator's alloc returned (a new live block when
\* it succeeded); otherwise length and memory are unchanged and the backing
\* allocator is not called.  Either way the result is &memory[old count] and
\* count is new_count.
C4_ArenaAlloc ==
    /\ arenaHist.call.op = "create" =>
           arena.memory = NULL /\ arena.count = 0 /\ arena.length = 0
    /\ arenaHist.call.op = "alloc" =>
           LET pre == arenaHist.pre
               new_count == Size(pre.count + arenaHist.call.size)
               doubled == Size(2 * pre.length)
           IN  /\ arena.count = new_count
               /\ arenaHist.call.ret = Ptr(arena.memory, pre.count)
               /\ IF new_count > pre.length
                  THEN /\ arena.length = IF doubled < new_count THEN new_count ELSE doubled
                       /\ arenaHist.backing.op = "alloc"
                       /\ arena.memory # NULL =>
                              /\ arena.memory = Len(heap)
                              /\ arena.memory # pre.memory
                              /\ heap[arena.memory].live
                  ELSE /\ arena.length = pre.length
                       /\ arena.memory = pre.memory
                       /\ arenaHist.backing.op = "none"

C4_Witness ==
    /\ arenaHist.call.op = "alloc"
    /\ arenaHist.pre.count > 0
    /\ arenaHist.pre.memory # NULL
    /\ arenaHist.backing.op = "alloc"
    /\ arena.memory # NULL
    /\ 2 * arenaHist.pre.length < arena.count
    /\ arena.length = arena.count

\* The strings of a sequence of strings, one after the other.
RECURSIVE Concatenation(_)
Concatenation(strings) ==
    IF strings = <<>> THEN <<>> ELSE Head(strings) \o Concatenation(Tail(strings))

\* "building a string incrementally."
TestResult == Building \o A \o String \o Incrementally

\* C5: for a StringBuilder created with capacity >= 1, string_builder_return
\* writes the concatenation of all the strings appended so far, in append order,
\* followed by one terminator; capacity 2 and the four strings of main give
\* "building a string incrementally.".
C5_ExtractIsConcatenation ==
    (builderHist.op = "return" /\ builderHist.capacity >= 1) =>
        /\ builderHist.out = Concatenation(builderHist.appended) \o <<NUL>>
        /\ (builderHist.capacity = 2 /\ builderHist.appended = TestStrings) =>
               builderHist.out = TestResult \o <<NUL>>

\* The nodes list_iter_next has to yield from node on: the list in link order.
RECURSIVE Chain(_)
Chain(node) == IF node = NULL THEN <<>> ELSE <<node>> \o Chain(nodes[node].next)

\* The list of main: third = (NULL, 3), second = (&third, 2), root = (&second, 1).
TestList == <<list_create(NULL, 3), list_create(1, 2), list_create(2, 1)>>

\* C6: over a list of n nodes, the first n list_iter_next calls return true and
\* write the nodes in list order (data 1, 2, 3 for the list of main); call n+1
\* and every later call write NULL, return false and leave the cursor NULL.
C6_ListIterYieldsList ==
    listIter.state = "live" =>
        LET chain == Chain(listHist.root)
            n == Len(chain)
            log == listHist.log
        IN  /\ \A i \in 1..Len(log) :
                   IF i <= n
                   THEN log[i].ret /\ log[i].value = chain[i]
                   ELSE ~log[i].ret /\ log[i].value = NULL /\ log[i].current = NULL
            /\ (nodes = TestList /\ listHist.root = 3 /\ Len(log) >= 4) =>
                   /\ [i \in 1..3 |-> nodes[log[i].value].data] = <<1, 2, 3>>
                   /\ ~log[4].ret
            /\ Len(log) > n => listIter.current = NULL

C6_Witness ==
    /\ nodes = TestList
    /\ listHist.root = 3
    /\ Len(listHist.log) = 5
    /\ ~listHist.log[5].ret

\* C7: sum_return and string_builder_return leave the Sum and the StringBuilder
\* (sum; count, length and the stored strings) as they were, and two returns in
\* a row write the same result.
C7_ExtractKeepsState ==
    /\ sumHist.op = "return" =>
           /\ sum = sumHist.pre
           /\ sumHist.prevop = "return" => sumHist.out = sumHist.prevout
    /\ builderHist.op = "return" =>
           /\ builder = builderHist.pre
           /\ builderHist.prevop = "return" => builderHist.out = builderHist.prevout

C7_Witness ==
    /\ builderHist.op = "return"
    /\ builderHist.prevop = "return"
    /\ builder.count >= 2
    /\ Len(builderHist.out) > 1

\* C8: sum_return writes the sum of all the values appended so far, modulo the
\* width of uint32_t: 0 for a fresh Sum, 55 after 0, 1, ..., 10.
C8_SumIsTotal ==
    sumHist.op = "return" =>
        /\ sumHist.out = sumHist.total % (U32Max + 1)
        /\ sumHist.n = 0 => sumHist.out = 0
        /\ (sumHist.inOrder /\ sumHist.n = loop_cap + 1) => sumHist.out = 55

C8_Witness ==
    /\ sumHist.op = "return"
    /\ sumHist.inOrder
    /\ sumHist.n = loop_cap + 1
    /\ sumHist.out = 55

\* C9: 0 <= count <= length in every state of the arena allocator.
C9_ArenaCountWithinLength ==
    arena.state = "created" => 0 <= arena.count /\ arena.count <= arena.length

C9_Witness ==
    /\ arenaHist.call.op \in {"alloc", "realloc"}
    /\ arenaHist.backing.op # "none"
    /\ arenaHist.pre.count > 0
    /\ arena.count = arena.length
    /\ arena.memory # NULL

\* C10: 0 <= count <= length in every state of the bump allocator, and alloc,
\* realloc, free and free_all leave memory as it was.
C10_BumpCountWithinLength ==
    bump.state = "created" =>
        /\ 0 <= bump.count /\ bump.count <= bump.length
        /\ bumpHist.call.op \in {"alloc", "realloc", "free", "free_all"} =>
               bump.memory = bumpHist.pre.memory

C10_Witness ==
    /\ bumpHist.call.op = "realloc"
    /\ bumpHist.call.ret # NullPtr
    /\ bumpHist.pre.count > 0
    /\ bump.count > bumpHist.pre.count
    /\ bump.memory # NULL

\* C11: for a StringBuilder created with any capacity, 0 included, 0 <= count <=
\* length after any appends, and an append made when count = length doubles
\* length before it stores the string.
C11_BuilderCountWithinLength ==
    builder.state = "live" =>
        /\ 0 <= builder.count /\ builder.count <= builder.length
        /\ (builderHist.op = "append" /\ builderHist.pre.count = builderHist.pre.length) =>
               builder.length = 2 * builderHist.pre.length

\* C12: once a range_next call has returned false, no later call on that Range
\* returns true.
C12_RangeExhaustionIsFinal ==
    (range.state = "live" /\ rangeHist.ret) => rangeHist.falses = 0

\* C13: bump_allocator_free and arena_allocator_free change no field of their
\* allocator, for any pointer, and the arena's call no backing-allocator
\* operation: the heap is as it was.
C13_FreeIsNoOp ==
    [][/\ bumpHist'.call.op = "free" => bump' = bump
       /\ arenaHist'.call.op = "free" =>
              /\ arena' = arena
              /\ heap' = heap
              /\ arenaHist'.backing.op = "none"]_vars

C13_Witness ==
    /\ arenaHist.call.op = "free"
    /\ arenaHist.call.ptr # NullPtr
    /\ arena.count > 0
    /\ arena.memory # NULL

\* C14: bump_allocator_free_all sets count to 0 and leaves length and memory as
\* they were; an alloc(size) made right after it with size < length advances
\* count to size and returns &memory[0], the start of the buffer, which is not
\* NULL unless the allocator was destroyed.
C14_BumpFreeAll ==
    [][/\ bumpHist'.call.op = "free_all" =>
              /\ bump'.count = 0
              /\ bump'.length = bump.length
              /\ bump'.memory = bump.memory
       /\ (/\ bumpHist.call.op = "free_all"
           /\ bumpHist'.call.op = "alloc"
           /\ bumpHist'.call.size < bump.length) =>
              /\ bumpHist'.call.ret = Ptr(bump.memory, 0)
              /\ bump.memory # NULL => bumpHist'.call.ret # NullPtr
              /\ bump'.count = bumpHist'.call.size]_vars

C14_Witness ==
    /\ bumpHist.call.op = "free_all"
    /\ bumpHist.pre.count > 0
    /\ bump.count = 0
    /\ bump.memory # NULL

\* C15: arena_allocator_clear sets count to 0 and leaves memory, length and the
\* backing reference as they were, with no backing-allocator call; an alloc that
\* fits in length (count + size <= length), as those after a clear do, returns
\* &memory[count] of the same buffer, from offset 0 right after the clear, and
\* neither grows the arena nor calls the backing allocator.
C15_ArenaClear ==
    [][/\ arenaHist'.call.op = "clear" =>
              /\ arena' = [arena EXCEPT !.count = 0]
              /\ heap' = heap
              /\ arenaHist'.backing.op = "none"
       /\ (arenaHist'.call.op = "alloc"
           /\ arena.count + arenaHist'.call.size <= arena.length) =>
              /\ arenaHist'.call.ret = Ptr(arena.memory, arena.count)
              /\ arena'.memory = arena.memory
              /\ arena'.length = arena.length
              /\ heap' = heap
              /\ arenaHist'.backing.op = "none"
       /\ (/\ arenaHist.call.op = "clear"
           /\ arenaHist'.call.op = "alloc"
           /\ arenaHist'.call.size <= arena.length) =>
              arenaHist'.call.ret = Ptr(arena.memory, 0)]_vars

C15_Witness ==
    /\ arenaHist.call.op = "clear"
    /\ arenaHist.pre.count > 0
    /\ arena.count = 0
    /\ arena.memory # NULL
    /\ arena.length > 0

\* C16: arena_allocator_destroy on an arena holding a buffer calls the backing
\* allocator's free once, with that buffer, and sets memory to NULL; on an arena
\* whose memory is NULL it changes nothing and calls nothing; no block of the
\* heap is ever freed twice.
C16_ArenaDestroy ==
    /\ arenaHist.call.op = "destroy" =>
           IF arenaHist.pre.memory # NULL
           THEN /\ arenaHist.backing = [op |-> "free", size |-> 0,
                                        ptr |-> arenaHist.pre.memory]
                /\ arena = [arenaHist.pre EXCEPT !.memory = NULL]
                /\ ~heap[arenaHist.pre.memory].live
           ELSE /\ arenaHist.backing.op = "none"
                /\ arena = arenaHist.pre
    /\ \A i \in 1..Len(heap) : heap[i].frees <= 1 /\ (heap[i].live <=> heap[i].frees = 0)

C16_Witness ==
    /\ arenaHist.call.op = "destroy"
    /\ arenaHist.pre.memory = NULL
    /\ arenaHist.pre.count > 0
    /\ Len(heap) = 1
    /\ heap[1].frees = 1

\* C17: from the same state and for every old_ptr, bump_allocator_realloc(old_ptr,
\* size) returns what bump_allocator_alloc(size) returns and leaves the count,
\* length and memory that it leaves: &memory[old count] and count + size when
\* count + size < length, NULL and no change otherwise.
C17_BumpReallocIsAlloc ==
    bumpHist.call.op = "realloc" =>
        LET pre == bumpHist.pre
            size == bumpHist.call.size
            fresh == bump_allocator_alloc(pre, size)
        IN  /\ bumpHist.call.ret = fresh.ret
            /\ bump = fresh.bump
            /\ IF Size(pre.count + size) < pre.length
               THEN /\ bumpHist.call.ret = Ptr(pre.memory, pre.count)
                    /\ bump = [pre EXCEPT !.count = Size(pre.count + size)]
               ELSE bumpHist.call.ret = NullPtr /\ bump = pre

C17_Witness ==
    /\ bumpHist.call.op = "realloc"
    /\ bumpHist.call.ptr # NullPtr
    /\ bumpHist.pre.count > bumpHist.call.ptr.off
    /\ bumpHist.call.ret = Ptr(bump.memory, bumpHist.pre.count)
    /\ bump.count > bumpHist.pre.count
    /\ bump.memory # NULL

\* C18: an arena alloc or realloc that calls the backing allocator leaves length
\* larger than it was, as does every one whose count + size exceeds length; no
\* alloc, realloc, free or clear leaves length smaller.
C18_ArenaLengthGrows ==
    arenaHist.call.op \in {"alloc", "realloc", "free", "clear"} =>
        /\ arena.length >= arenaHist.pre.length
        /\ arenaHist.backing.op # "none" => arena.length > arenaHist.pre.length
        /\ (/\ arenaHist.call.op \in {"alloc", "realloc"}
            /\ Size(arenaHist.pre.count + arenaHist.call.size) > arenaHist.pre.length) =>
               /\ arenaHist.backing.op # "none"
               /\ arena.length > arenaHist.pre.length

C18_Witness ==
    /\ arenaHist.call.op = "realloc"
    /\ arenaHist.backing.op = "realloc"
    /\ arenaHist.pre.length > 0
    /\ arena.length = 2 * arenaHist.pre.length
    /\ arena.memory # NULL

\* C19: when the backing allocator returns NULL to a growing arena alloc or
\* realloc, the arena call returns NULL, whatever count is.
C19_ArenaFailureIsNull ==
    (/\ arenaHist.call.op \in {"alloc", "realloc"}
     /\ arenaHist.backing.op # "none"
     /\ arena.memory = NULL) =>
        arenaHist.call.ret = NullPtr

\* C20: range_create(start, end) with end = UINT32_MAX is stopped by the
\* assertion and gives no Range, for every start; every other end gives a Range
\* with current = start and that end.
C20_RangeCreateRejectsMax ==
    range.state # "none" =>
        IF rangeHist.end = U32Max
        THEN range.state = "aborted"
        ELSE /\ range.state = "live"
             /\ range.end = rangeHist.end
             /\ rangeHist.calls = 0 => range.current = rangeHist.start

C20_Witness ==
    /\ range.state = "aborted"
    /\ rangeHist.start > 0
    /\ rangeHist.end = U32Max

\* C21: a range_next call that returns false leaves the caller's result slot as
\* it was before the call.
C21_FalseKeepsSlot ==
    (range.state = "live" /\ rangeHist.calls > 0 /\ ~rangeHist.ret) =>
        rangeResult = rangeHist.preResult

\* C22: an alloc or realloc made on a bump or arena allocator right after its
\* destroy is stopped by an assertion: the allocator is aborted, no slice is
\* returned and count is not advanced.
C22_DestroyedUseAborts ==
    [][/\ (bumpHist.call.op = "destroy" /\ bumpHist'.call.op \in {"alloc", "realloc"}) =>
              /\ bump'.state = "aborted"
              /\ bump'.count = bump.count
       /\ (arenaHist.call.op = "destroy" /\ arenaHist'.call.op \in {"alloc", "realloc"}) =>
              /\ arena'.state = "aborted"
              /\ arena'.count = arena.count]_vars

\* C23: the descriptor embedded in every Range, ListIter, Sum, StringBuilder,
\* BumpAllocator and ArenaAllocator, and the arena's backing reference, are the
\* ones its create function wired, after any operations on it.
C23_DescriptorIsFixed ==
    /\ range.state = "live" => range.iter = [next |-> "range_next"]
    /\ listIter.state = "live" => listIter.iter = [next |-> "list_iter_next"]
    /\ sum.state = "live" =>
           sum.scan = [ret |-> "sum_return", append |-> "sum_append"]
    /\ builder.state # "none" =>
           builder.scan = [ret |-> "string_builder_return",
                           append |-> "string_builder_append"]
    /\ bump.state # "none" =>
           bump.allocator = [alloc |-> "bump_allocator_alloc",
                             free |-> "bump_allocator_free",
                             realloc |-> "bump_allocator_realloc"]
    /\ arena.state # "none" =>
           /\ arena.allocator = [alloc |-> "arena_allocator_alloc",
                                 free |-> "arena_allocator_free",
                                 realloc |-> "arena_allocator_realloc"]
           /\ arena.backing_allocator = "heap_allocator"

C23_Witness ==
    /\ arenaHist.call.op = "clear"
    /\ arenaHist.pre.count > 0
    /\ arenaHist.pre.memory # NULL
    /\ arena.allocator.alloc = "arena_allocator_alloc"

\* C24: while the arena holds a buffer, count does not exceed the size of that
\* buffer, and the size asked of the backing allocator on growth is the length
\* the arena records.
C24_ArenaSliceInsideBuffer ==
    (arena.state = "created" /\ arena.memory # NULL) =>
        /\ arena.count <= heap[arena.memory].size
        /\ arenaHist.backing.op \in {"alloc", "realloc"} =>
               arenaHist.backing.size = arena.length

\* C25: the pointer slots the last calloc or realloc of a StringBuilder provided
\* are at least length, and the slot an append writes, strings[old count], is
\* one of them.
C25_AppendWritesInsideArray ==
    builder.state = "live" =>
        /\ builder.slots >= builder.length
        /\ builderHist.op = "append" => builderHist.pre.count < builder.slots

\* C26: when arena_allocator_destroy has returned, every buffer the arena got
\* from the backing allocator has been given back: no block of the heap is live.
C26_ArenaNeverLeaks ==
    (arena.state = "created" /\ arenaHist.call.op = "destroy") =>
        \A i \in 1..Len(heap) : ~heap[i].live

\* C27: a bump_allocator_alloc(size) that succeeds has old count + size < length
\* in unbounded arithmetic, for every size of the machine word: count does not
\* decrease and the slice returned ends at or before length.
C27_BumpAllocNoOverflow ==
    (/\ bumpHist.call.op = "alloc"
     /\ bumpHist.pre.memory # NULL
     /\ bumpHist.call.ret # NullPtr) =>
        /\ bumpHist.pre.count + bumpHist.call.size < bumpHist.pre.length
        /\ bump.count >= bumpHist.pre.count
        /\ bumpHist.call.ret.off + bumpHist.call.size <= bump.length

C29_VariantArenaGrows ==
    arena.state = "variant" =>
        /\ arena.count <= arena.length
        /\ (/\ arenaHist.call.op \in {"alloc", "realloc"}
            /\ arenaHist.call.size > 0
            /\ arenaHist.pre = variant_arena_allocator_create("heap_allocator")) =>
               /\ arenaHist.backing.op # "none"
               /\ arena.memory = Len(heap) \/ arena.memory = NULL

=============================================================================
